---- MODULE Spec2Model ----
(***************************************************************************)
(* Model of the GRA2PES regridding workflow of agmeyer4/atmos:             *)
(*   - Gra2pesRegridder (src/utils/gra2pes_utils.py): the lazily built     *)
(*     regridder of one instance and its public methods;                   *)
(*   - main / load_regrid_save (src/workflows/gra2pes/gra2pes_regrid.py):  *)
(*     the batch loop over (year, month, day_type, sector) units;          *)
(*   - RegriddedGra2pesHandler.rework_ds_dt: the expansion of the          *)
(*     (year, month, day_type, utc_hour) scheme into calendar timestamps.  *)
(*   - Gra2pesRegridder.create_ingrid and Gra2pesRegridConfig.get_grid_out *)
(*     (src/configs/gra2pes/gra2pes_config.py): the grids of the regrid.   *)
(*   - DateTimeRange (src/utils/datetime_utils.py) with get_inrange_list   *)
(*     and get_daytype_from_int, which pick the units of a datetime range. *)
(* The specifications share the variables: Spec (one regridder instance    *)
(* under arbitrary public calls), SpecBatch (runs of main), SpecTime and   *)
(* SpecTimeCfg (rework_ds_dt on bounded inputs, with the day types of      *)
(* Gra2pesConfig and with any classification), SpecPar (regrid() calls     *)
(* interleaved on one instance), SpecGrid (the grid constructions) and     *)
(* SpecRange (a DateTimeRange object and the calls made with it).          *)
(***************************************************************************)
EXTENDS Integers, Sequences, FiniteSets, TLC

VARIABLES
    regridder,   \* self.regridder of the Gra2pesRegridder instance, or Unset
    nBuilt,      \* number of xe.Regridder objects constructed so far
    lastOp,      \* the public call made last, its input and its outcome
    hist,        \* history of the regrid() calls made on the instance
    pc,          \* position of main: idle, check_space, load_regrid_save,
                 \* details, done or failed
    unit,        \* index of the unit of the batch loop main is at
    run,         \* number of runs of main started so far
    free,        \* free space of the output filesystem, in Gb
    files,       \* the unit output files: path -> content, or Absent
    dirs,        \* the directories made under the output directory
    details,     \* the artifacts of the details folder: name -> run, or 0
    removed,     \* number of output files the user has removed
    log,         \* what the current run of main has done, in order
    tds,         \* the dataset handed to rework_ds_dt
    tpc,         \* position of rework_ds_dt: idle, loop, done or failed
    tpos,        \* number of (year, month) iterations of rework_ds_dt done
    combined_ds_list, \* combined_ds_list of rework_ds_dt
    combined_ds, \* the dataset rework_ds_dt returns
    config_dtd,  \* self.config.day_type_details of the handler
    thread_pc,   \* position of each concurrent regrid() call: waiting, lookup,
                 \* create, store, apply, done or failed
    thread_ds,   \* the dataset of each concurrent regrid() call
    thread_new,  \* the regridder a call has built and not yet stored, or Unset
    thread_applied, \* the id of the regridder each call applied, or 0
    grid_args,   \* the arguments of the grid construction under study
    grid_res,    \* the grid it returned, or NoGrid
    dtr,         \* the DateTimeRange object under study, or NoRange
    dop          \* the call made last on or with dtr, its arguments and outcome

rvars == <<regridder, nBuilt, lastOp, hist>>
bvars == <<pc, unit, run, free, files, dirs, details, removed, log>>
tvars == <<tds, tpc, tpos, combined_ds_list, combined_ds, config_dtd>>
pvars == <<thread_pc, thread_ds, thread_new, thread_applied>>
gvars == <<grid_args, grid_res>>
dvars == <<dtr, dop>>
vars == <<rvars, bvars, tvars, pvars, gvars, dvars>>

----------------------------------------------------------------------------
(* Bounds of the model *)

\* at most this many xe.Regridder constructions are explored
MaxBuilt == 2
\* successful regrid() calls are counted up to this number
MaxCalls == 3
\* main is run at most this many times
MaxRuns == 2
\* the output filesystem starts with at most this many Gb above the threshold
MaxSpareGb == 2
\* the user removes at most this many output files
MaxRemovals == 1
\* the source of rework_ds_dt holds at most this many (year, month) pairs
MaxPairs == 2
\* the utc_hour values of the source are drawn from 0..MaxHour and 23
MaxHour == 1
\* at most this many regrid() calls run concurrently on one instance
MaxThreads == 3
\* the input grid has at most this many cells along an axis
MaxN == 3
\* grid spacings are drawn from 1..MaxSpacing
MaxSpacing == 3
\* the centre ranges of the output grid are at most this wide
MaxSpan == 4
\* the datetimes of a range lie within this many days after FirstDay
MaxDays == 5
\* get_daytype_from_int is called with the integers 0..MaxDayInt
MaxDayInt == 7

----------------------------------------------------------------------------
(* Gra2pesRegridder: datasets handed to the public methods *)

\* the instance has no regridder attribute (the state Uninitialized)
Unset == [id |-> 0, grid |-> [shape |-> 0, geom |-> 0]]
\* ds has no MAP_PROJ_CHAR attribute
NoAttr == "NoAttr"
\* map_proj = None
None == "None"

\* keep_attrs of regrid()
keep_attrs == {"sector", "year", "month", "day_type", "TITLE", "regrid_method"}

\* attribute keys a dataset handed to regrid() may carry besides MAP_PROJ_CHAR
AttrUniverse == {"sector", "regrid_method", "CEN_LAT"}

\* values of ds.MAP_PROJ_CHAR
ProjChoices == {"Lambert Conformal", "Mercator", NoAttr}

\* grid geometries: shape (nx, ny) and the rest of the signature (spacing,
\* projection parameters)
GridChoices == {[shape |-> 1, geom |-> 1], [shape |-> 1, geom |-> 2],
                [shape |-> 2, geom |-> 1]}

\* non-spatial axes of a dataset (sum_on_dim removes zlevel)
AxesChoices == {{"utc_hour"}, {"zlevel", "utc_hour"}}

Datasets == [attrs : SUBSET AttrUniverse, MAP_PROJ_CHAR : ProjChoices,
             grid : GridChoices, axes : AxesChoices]

\* ds.attrs.keys()
AttrKeys(ds) ==
    ds.attrs \cup (IF ds.MAP_PROJ_CHAR = NoAttr THEN {} ELSE {"MAP_PROJ_CHAR"})

----------------------------------------------------------------------------
(* Gra2pesRegridder.proj4_from_ds *)

Range(s) == {s[i] : i \in DOMAIN s}

Raise(type, msg) == [ok |-> FALSE, type |-> type, msg |-> msg]

\* the body of the inner try: the comparison of ds.MAP_PROJ_CHAR
proj4_try(ds) ==
    IF ds.MAP_PROJ_CHAR = NoAttr
    THEN Raise("AttributeError", <<"MAP_PROJ_CHAR">>)
    ELSE IF ds.MAP_PROJ_CHAR = "Lambert Conformal"
    THEN [ok |-> TRUE, map_proj |-> "lcc"]
    ELSE Raise("ValueError",
               <<"Unknown map projection in ds.MAP_PROJ_CHAR: ", ds.MAP_PROJ_CHAR>>)

\* the try with its bare except: whatever the body raised is replaced
proj4_map_proj(ds, map_proj) ==
    IF map_proj = None
    THEN IF proj4_try(ds).ok
         THEN proj4_try(ds)
         ELSE Raise("Exception", <<"No map projection found">>)
    ELSE [ok |-> TRUE, map_proj |-> map_proj]

proj4_from_ds(ds, map_proj, earth_rep) ==
    LET mp == proj4_map_proj(ds, map_proj) IN
    IF ~mp.ok THEN mp
    ELSE IF earth_rep = "sphere"
    THEN [ok |-> TRUE, proj4 |-> [proj |-> mp.map_proj, a |-> "6370000", b |-> "6370000"]]
    ELSE Raise("Exception", <<"Haven't dealt with non spheres yet">>)

----------------------------------------------------------------------------
(* Gra2pesRegridder.create_regridder and regrid *)

\* create_transformers / create_ingrid: fail when proj4_from_ds(ds) raises
create_ingrid(ds) ==
    LET p == proj4_from_ds(ds, None, "sphere") IN
    IF p.ok THEN [ok |-> TRUE, grid_in |-> ds.grid] ELSE p

\* xe.Regridder(grid_in, grid_out, method): a new object holding the weights
\* of the grid pair; n is the number of objects constructed before
create_regridder(ds, n) ==
    LET g == create_ingrid(ds) IN
    IF g.ok THEN [ok |-> TRUE, regridder |-> [id |-> n + 1, grid |-> g.grid_in]]
    ELSE g

\* (mutation of store_regridder: the new regridder is stored whatever
\* save_to_self says)
store_regridder_always(self_regridder, built, save_to_self) == built

\* self.regridder after create_regridder(ds, save_to_self) returned `built`
store_regridder(self_regridder, built, save_to_self) ==
    IF save_to_self THEN built ELSE self_regridder

\* the cells of the output grid
OutCells == {1, 2}

\* the output cells that overlap some cell of the input grid: an input grid of
\* geometry 2 leaves the output cell 2 without any overlap
covered_cells(grid) == IF grid.geom = 2 THEN {1} ELSE OutCells

\* the keyword arguments create_regridder passes to xe.Regridder
Regridder_kwargs == {"input_dims"}

\* what the regridder puts in an output cell no input cell overlaps: the
\* weights of such a cell are all zero, and they are replaced by NaN only when
\* the regridder was built with unmapped_to_nan
unmapped_value(kwargs) == IF "unmapped_to_nan" \in kwargs THEN "nan" ELSE "zero"

\* self.regridder(ds, keep_attrs = True): the weights apply to data of the
\* horizontal shape they were built for; the result carries the attributes of
\* ds and the regrid_method attribute the regridder sets on its output, and
\* in every output cell the weighted data or the value of unmapped cells
apply_regridder(r, ds) ==
    IF r.grid.shape = ds.grid.shape
    THEN [ok |-> TRUE, attrs |-> AttrKeys(ds) \cup {"regrid_method"},
          axes |-> ds.axes, weights |-> r,
          cells |-> [c \in OutCells |->
                        IF c \in covered_cells(r.grid) THEN "data"
                        ELSE unmapped_value(Regridder_kwargs)]]
    ELSE Raise("ValueError", <<"horizontal shape of input data">>)

\* (mutation of prune_attrs: nothing is deleted)
prune_attrs_none(attrs) == attrs

\* the loop over old_attrs deleting what is not in keep_attrs
prune_attrs(attrs) == {a \in attrs : a \in keep_attrs}

\* (mutation of regrid: the stored regridder is not looked up, every call
\* builds one)
regrid_rebuild(r, n, ds) ==
    LET c == create_regridder(ds, n) IN
    IF ~c.ok
    THEN [regridder |-> r, nBuilt |-> n, built |-> 0, res |-> c]
    ELSE LET out == apply_regridder(c.regridder, ds) IN
         [regridder |-> c.regridder, nBuilt |-> n + 1, built |-> c.regridder.id,
          res |-> IF out.ok THEN [out EXCEPT !.attrs = prune_attrs(out.attrs)]
                  ELSE out]

\* (mutation of regrid: the attribute is assigned before the creation, so a
\* failed creation leaves a regridder without weights on the instance)
regrid_assign_first(r, n, ds) ==
    LET c == IF r = Unset THEN create_regridder(ds, n)
             ELSE [ok |-> TRUE, regridder |-> r]
    IN  IF ~c.ok
        THEN [regridder |-> [id |-> n + 1, grid |-> ds.grid], nBuilt |-> n + 1,
              built |-> 0, res |-> c]
        ELSE LET out == apply_regridder(c.regridder, ds) IN
             [regridder |-> c.regridder,
              nBuilt |-> IF r = Unset THEN n + 1 ELSE n,
              built |-> IF r = Unset THEN c.regridder.id ELSE 0,
              res |-> IF out.ok
                      THEN [out EXCEPT !.attrs = prune_attrs(out.attrs)]
                      ELSE out]

\* regrid(ds) on an instance whose self.regridder is r, n objects built so far:
\* the new self.regridder, the number built, and the result or the error
regrid(r, n, ds) ==
    LET c == IF r = Unset THEN create_regridder(ds, n)
             ELSE [ok |-> TRUE, regridder |-> r]
        n2 == IF r = Unset /\ c.ok THEN n + 1 ELSE n
    IN  IF ~c.ok
        THEN [regridder |-> r, nBuilt |-> n2, built |-> 0, res |-> c]
        ELSE LET out == apply_regridder(c.regridder, ds) IN
             [regridder |-> c.regridder, nBuilt |-> n2,
              built |-> IF r = Unset THEN c.regridder.id ELSE 0,
              res |-> IF out.ok
                      THEN [out EXCEPT !.attrs = prune_attrs(out.attrs)]
                      ELSE out]

----------------------------------------------------------------------------
(* gen_utils.check_space *)

\* units of human_to_bytes
units == <<"b", "Kb", "Mb", "Gb", "Tb", "Pb">>

\* excep_thresh of check_space, value and unit of '8Tb'
excep_thresh == [value |-> 8, unit |-> "Tb"]

\* units.index(unit_str)
unit_index(u) == CHOOSE k \in 0..(Len(units) - 1) : units[k + 1] = u

\* human_to_bytes, counted in Gb (1024 ** 3 bytes): value * 1024 ** unit_index
\* bytes are value * 1024 ** (unit_index - 3) Gb, for the units from Gb on.
\* free_bytes < thresh_bytes is decided by the whole Gb of free_bytes, since
\* thresh_bytes is a whole number of Gb.
human_to_gb(h) == h.value * 1024 ^ (unit_index(h.unit) - 3)

\* (mutation of check_space: the comparison never raises)
check_space_never(free_gb) == TRUE

\* check_space(path): FALSE when it raises MemoryError
check_space(free_gb) == ~(free_gb < human_to_gb(excep_thresh))

----------------------------------------------------------------------------
(* gra2pes_regrid.py: the units of the batch and their output paths *)

\* the lists main loops over (main sets one year, twelve months, three day
\* types and all sectors)
years == <<2021>>
months == <<1, 2>>
day_types == <<"satdy", "weekdy">>
sectors == <<"AG", "total">>

NUnits == Len(years) * Len(months) * Len(day_types) * Len(sectors)

\* (mutation of Unit: the loop over the sectors is the outermost)
Unit_sector_outer(k) ==
    LET z == k - 1
        ny == Len(years)
        nd == Len(day_types)
        nm == Len(months)
    IN [year |-> years[((z \div (nd * nm)) % ny) + 1],
        month |-> months[((z \div nd) % nm) + 1],
        day_type |-> day_types[(z % nd) + 1],
        sector |-> sectors[(z \div (nd * nm * ny)) + 1]]

\* the k-th unit the nested loops (year, month, day_type, sector) reach
Unit(k) ==
    LET z == k - 1
        ns == Len(sectors)
        nd == Len(day_types)
        nm == Len(months)
    IN [year |-> years[(z \div (ns * nd * nm)) + 1],
        month |-> months[((z \div (ns * nd)) % nm) + 1],
        day_type |-> day_types[((z \div ns) % nd) + 1],
        sector |-> sectors[(z % ns) + 1]]

RECURSIVE Digits(_)
\* the decimal digits of n >= 0
Digits(n) == IF n < 10 THEN <<n>> ELSE Append(Digits(n \div 10), n % 10)

RECURSIVE ZeroPad(_, _)
\* f'{n:0wd}': the digits of n, padded with zeros to at least w
ZeroPad(s, w) == IF Len(s) >= w THEN s ELSE ZeroPad(<<0>> \o s, w)

\* regridded_day_subpath_structure: '{year_str}/{month_str}/{day_type}'
day_subpath(year, month, day_type) ==
    <<ZeroPad(Digits(year), 4), ZeroPad(Digits(month), 2), day_type>>

\* (mutation of save_path: the file name does not carry the sector)
save_path_one_name(u) ==
    Append(day_subpath(u.year, u.month, u.day_type), <<"all", "_regridded.nc">>)

\* full_save_path below regridded_path: the day subpath and '{sector}_regridded.nc'
save_path(u) ==
    Append(day_subpath(u.year, u.month, u.day_type), <<u.sector, "_regridded.nc">>)

OutPaths == {save_path(Unit(k)) : k \in 1..NUnits}

Absent == [run |-> 0, attrs |-> {}]

\* the artifacts written after the loop
DetailFiles == {"grid_out.nc", "regrid_details.txt", "regrid_config.pkl",
                "regrid_weights.nc"}

----------------------------------------------------------------------------
(* gra2pes_regrid.py: load_regrid_save *)

\* BGH.load_fmt_fullday: the base dataset of a unit, with the projection the
\* file declares
base_ds(u, proj) ==
    [attrs |-> {"sector", "year", "month", "day_type", "TITLE", "CEN_LAT", "DX"},
     MAP_PROJ_CHAR |-> proj, grid |-> [shape |-> 1, geom |-> 1],
     axes |-> {"zlevel", "utc_hour"}]

\* sum_on_dim(ds, dim = ...): the attributes are kept for zlevel only
sum_on_dim(ds, dim) ==
    [ds EXCEPT !.axes = @ \ {dim},
               !.attrs = IF dim = "zlevel" THEN @ ELSE {},
               !.MAP_PROJ_CHAR = IF dim = "zlevel" THEN @ ELSE NoAttr]

\* pre_processes of main
pre_sum_dim == "zlevel"

\* extent of main, the parameter of slice_extent
extent == [lon_min |-> -113, lon_max |-> -111, lat_min |-> 40, lat_max |-> 42]

\* slice_extent(ds, extent = e): ds.sel on lat and lon -- the cells within the
\* extent, the attributes and the other axes as they were
slice_extent(ds, e) ==
    [f \in DOMAIN ds \cup {"extent"} |-> IF f = "extent" THEN e ELSE ds[f]]

\* post_processes handed to load_regrid_save: None (as main sets it) or
\* [(slice_extent, {'extent': extent})]
PostProcessChoices == {<<>>, <<"slice_extent">>}

\* for func, params in post_processes: regridded_ds = func(regridded_ds, **params)
apply_post_processes(ds, post) ==
    LET after[i \in 0..Len(post)] ==
            IF i = 0 THEN ds ELSE slice_extent(after[i - 1], extent)
    IN after[Len(post)]

\* (mutation of set_git_hash: the attribute is not set)
set_git_hash_none(attrs) == attrs

\* regridded_ds.attrs['git_hash'] = gen_utils.get_githash()
set_git_hash(attrs) == attrs \cup {"git_hash"}

\* the attributes of the dataset handed to to_netcdf: those of the regridded
\* dataset with git_hash set, after the post processes
to_netcdf_attrs(regridded_ds, post) ==
    apply_post_processes([regridded_ds EXCEPT !.attrs = set_git_hash(@)], post).attrs

\* load_regrid_save from the loading of the base data on (lines 68-92); the
\* file holds the attributes of the dataset handed to to_netcdf
load_regrid_write(fs, ds_dirs, r, n, k, load, post, rn, gb) ==
    LET u == Unit(k)
        p == save_path(u)
        d == ds_dirs \cup {day_subpath(u.year, u.month, u.day_type)}
        g == regrid(r, n, sum_on_dim(base_ds(u, load.proj), pre_sum_dim))
    IN  IF ~load.ok
        THEN [ok |-> FALSE, files |-> fs, dirs |-> d, regridder |-> r, nBuilt |-> n,
              events |-> <<>>, gb |-> 0]
        ELSE IF ~g.res.ok
        THEN [ok |-> FALSE, files |-> fs, dirs |-> d, regridder |-> g.regridder,
              nBuilt |-> g.nBuilt, events |-> <<"load", "regrid">>, gb |-> 0]
        ELSE [ok |-> TRUE,
              files |-> [fs EXCEPT ![p] = [run |-> rn, attrs |-> to_netcdf_attrs(g.res, post)]],
              dirs |-> d, regridder |-> g.regridder, nBuilt |-> g.nBuilt,
              events |-> <<"load", "regrid", "write">>, gb |-> gb]

\* (mutation of load_regrid_save: the existing target file is not looked for)
load_regrid_save_noguard(fs, ds_dirs, r, n, k, load, post, rn, gb) ==
    load_regrid_write(fs, ds_dirs, r, n, k, load, post, rn, gb)

\* load_regrid_save for the k-th unit in run rn, on the files fs and directories
\* ds_dirs, with the regridder instance (r, n); load is what load_fmt_fullday
\* does (it raises, or gives a dataset of some projection), post the
\* post_processes and gb the size of the file written. The result: whether it returned, the files, directories
\* and regridder afterwards and the steps it took.
load_regrid_save(fs, ds_dirs, r, n, k, load, post, rn, gb) ==
    LET u == Unit(k)
        p == save_path(u)
        d == ds_dirs \cup {day_subpath(u.year, u.month, u.day_type)}
    IN  IF fs[p] # Absent
        THEN [ok |-> FALSE, files |-> fs, dirs |-> d, regridder |-> r, nBuilt |-> n,
              events |-> <<>>, gb |-> 0]
        ELSE load_regrid_write(fs, ds_dirs, r, n, k, load, post, rn, gb)

\* outcomes of BGH.load_fmt_fullday
LoadChoices == {[ok |-> FALSE, proj |-> NoAttr],
                [ok |-> TRUE, proj |-> "Lambert Conformal"],
                [ok |-> TRUE, proj |-> "Mercator"]}

----------------------------------------------------------------------------
(* Calendar: datetime.date, calendar.monthrange, DateTimeRange *)

\* calendar.isleap
isleap(y) == (y % 4 = 0) /\ ((y % 100 # 0) \/ (y % 400 = 0))

\* calendar.monthrange(year, month)[1]: the number of days of the month
monthrange(y, m) ==
    IF m = 2 THEN (IF isleap(y) THEN 29 ELSE 28)
    ELSE IF m \in {4, 6, 9, 11} THEN 30 ELSE 31

RECURSIVE days_before_month(_, _)
\* the days of year y before the first of month m
days_before_month(y, m) ==
    IF m = 1 THEN 0 ELSE days_before_month(y, m - 1) + monthrange(y, m - 1)

\* date.toordinal(): the day number, 1 for 0001-01-01
toordinal(y, m, d) ==
    LET b == y - 1 IN
    b * 365 + (b \div 4) - (b \div 100) + (b \div 400) + days_before_month(y, m) + d

\* date.weekday() of the date with ordinal o: Monday is 0, Sunday is 6
weekday(o) == (o + 6) % 7

\* datetime.datetime(year, month, day) in UTC: a date and the time of day
datetime_utc(y, m, d) == [date |-> toordinal(y, m, d), hour |-> 0]

\* start <= end for two datetimes
dt_le(a, b) == a.date < b.date \/ (a.date = b.date /\ a.hour <= b.hour)

RECURSIVE get_dates_in_range_exclusive(_, _)
\* (mutation of get_dates_in_range: the loop runs while current_date < end_dt)
get_dates_in_range_exclusive(current_date, end_dt) ==
    IF dt_le(current_date, end_dt) /\ current_date # end_dt
    THEN <<current_date.date>> \o
         get_dates_in_range_exclusive([current_date EXCEPT !.date = @ + 1], end_dt)
    ELSE <<>>

RECURSIVE get_dates_in_range(_, _)
\* DateTimeRange(start_dt, end_dt).get_dates_in_range(): the while loop
\* appending current_date.date() and adding one day
get_dates_in_range(current_date, end_dt) ==
    IF dt_le(current_date, end_dt)
    THEN <<current_date.date>> \o
         get_dates_in_range([current_date EXCEPT !.date = @ + 1], end_dt)
    ELSE <<>>

\* pd.Timestamp(date) + pd.Timedelta(hours = hour), in hours
Timestamp(date, hour) == date * 24 + hour

----------------------------------------------------------------------------
(* Gra2pesConfig.day_type_details and RegriddedGra2pesHandler.rework_ds_dt *)

\* Gra2pesConfig.day_type_details
day_type_details ==
    [satdy |-> {5}, sundy |-> {6}, weekdy |-> {0, 1, 2, 3, 4}]

\* the keys of dates_by_day_type, in the order the dict is written
dates_by_day_type_keys == <<"weekdy", "satdy", "sundy">>

\* a value of the source that no file provides (filled when files are combined)
NaN == <<0, 0, "nan", 0>>

\* the value the dataset holds at (year, month, day_type, utc_hour): the value
\* of the file of that unit, named by its coordinates
ds_value(ds, y, m, dt, h) ==
    IF <<y, m>> \in ds.pairs /\ dt \in ds.day_types THEN <<y, m, dt, h>> ELSE NaN

\* (mutation of sortby: the order is left as it is)
sortby_nothing(series) == series

\* .sortby('datetime')
sortby_datetime(series) ==
    SortSeq(series, LAMBDA a, b : a.datetime < b.datetime)

RECURSIVE concat(_)
\* xr.concat(list, dim = 'datetime')
concat(list) == IF list = <<>> THEN <<>> ELSE Head(list) \o concat(Tail(list))

\* [date for date in dates_in_month if date.weekday() in day_type_details[day_type]],
\* dtd being the day_type_details of the config
dates_of_day_type(dates_in_month, dtd, day_type) ==
    SelectSeq(dates_in_month, LAMBDA date : weekday(date) \in dtd[day_type])

\* (mutation of datetime_list: the hours are the outer loop)
datetime_list_hour_major(dates, hours) ==
    [i \in 1..(Len(dates) * Len(hours)) |->
        Timestamp(dates[((i - 1) % Len(dates)) + 1],
                  hours[((i - 1) \div Len(dates)) + 1])]

\* the list comprehension of datetimes: for date in dates, for hour in hours
datetime_list(dates, hours) ==
    [i \in 1..(Len(dates) * Len(hours)) |->
        Timestamp(dates[((i - 1) \div Len(hours)) + 1],
                  hours[((i - 1) % Len(hours)) + 1])]

\* subds.stack({'datetime': ('date', 'utc_hour')}): the data of the day type,
\* which has no date dimension, repeated for every date, date-major
stack_date_utc_hour(ds, y, m, dt, dates, hours) ==
    [i \in 1..(Len(dates) * Len(hours)) |->
        ds_value(ds, y, m, dt, hours[((i - 1) % Len(hours)) + 1])]

\* subds of one day type with the new datetime coordinate assigned by position
day_type_series(ds, y, m, dt, dates) ==
    LET data == stack_date_utc_hour(ds, y, m, dt, dates, ds.hours)
        index == datetime_list(dates, ds.hours)
    IN [i \in 1..Len(data) |-> [datetime |-> index[i], value |-> data[i]]]

\* the body of the loops over ds.year.values and ds.month.values for one
\* (year, month): new_month_ds, or the KeyError of sel(day_type = ...)
new_month_ds(ds, dtd, y, m) ==
    LET dates_in_month ==
            get_dates_in_range(datetime_utc(y, m, 1), datetime_utc(y, m, monthrange(y, m)))
        new_month_ds_list ==
            [k \in 1..Len(dates_by_day_type_keys) |->
                day_type_series(ds, y, m, dates_by_day_type_keys[k],
                    dates_of_day_type(dates_in_month, dtd, dates_by_day_type_keys[k]))]
    IN IF \A k \in 1..Len(dates_by_day_type_keys) : dates_by_day_type_keys[k] \in ds.day_types
       THEN [ok |-> TRUE, ds |-> sortby_datetime(concat(new_month_ds_list))]
       ELSE [ok |-> FALSE, ds |-> <<>>]

----------------------------------------------------------------------------
(* SpecTime: rework_ds_dt on the datasets open_ds_inrange assembles *)

YearChoices == {2020, 2021}
MonthChoices == {1, 2, 6, 12}
HourChoices == (0..MaxHour) \cup {23}
DayTypeSets == {{"weekdy", "satdy", "sundy"}, {"weekdy", "satdy"}}

RECURSIVE ascending(_)
\* the values of a coordinate, ascending (combine_by_coords orders them)
ascending(S) ==
    IF S = {} THEN <<>>
    ELSE LET x == CHOOSE x \in S : \A y \in S : x <= y
         IN <<x>> \o ascending(S \ {x})

\* the dataset assembled from the files of the (year, month) pairs P, the day
\* types D and the hours H
source_ds(P, D, H) ==
    [pairs |-> P, day_types |-> D,
     years |-> ascending({p[1] : p \in P}),
     months |-> ascending({p[2] : p \in P}),
     hours |-> ascending(H)]

NoDs == [pairs |-> {}, day_types |-> {}, years |-> <<>>, months |-> <<>>, hours |-> <<>>]

InitTimeIdle ==
    /\ tds = NoDs
    /\ tpc = "idle"
    /\ tpos = 0
    /\ combined_ds_list = <<>>
    /\ combined_ds = <<>>
    /\ config_dtd = day_type_details

\* the concurrent regrid() calls on one instance
Threads == 1..MaxThreads

\* a dataset of the batch: Lambert Conformal, on the grid g
grid_ds(g) ==
    [attrs |-> {}, MAP_PROJ_CHAR |-> "Lambert Conformal", grid |-> g,
     axes |-> {"utc_hour"}]

\* no concurrent call is under way
InitParIdle ==
    /\ thread_pc = [u \in Threads |-> "waiting"]
    /\ thread_ds = [u \in Threads |-> grid_ds([shape |-> 1, geom |-> 1])]
    /\ thread_new = [u \in Threads |-> Unset]
    /\ thread_applied = [u \in Threads |-> 0]

NoArgs == [kind |-> "none"]
NoGrid == [kind |-> "none"]

\* no grid construction is under study
InitGridIdle ==
    /\ grid_args = NoArgs
    /\ grid_res = NoGrid

----------------------------------------------------------------------------
(* DateTimeRange: timezones and datetimes *)

\* a datetime without tzinfo (dt.tzinfo is None)
NoTz == [kind |-> "none", name |-> "none"]

\* the names of the timezones in use: UTC and two zones of fixed offset
TzNames == {"UTC", "Etc/GMT+7", "Etc/GMT-9"}

\* tz.utcoffset(dt) in hours
utcoffset(name) ==
    CASE name = "UTC" -> 0
      [] name = "Etc/GMT+7" -> 0 - 7
      [] name = "Etc/GMT-9" -> 9

\* pytz.timezone(name): one object per name
pytz_timezone(name) == [kind |-> "pytz", name |-> name]

\* tz.localize(dt): the wall clock of dt with tz attached
localize(tz, dt) == [dt EXCEPT !.tzinfo = tz]

\* dt.astimezone(tz) of an aware datetime: the same instant on the wall clock
\* of tz
astimezone(dt, tz) ==
    [date |-> (dt.date * 24 + dt.hour - utcoffset(dt.tzinfo.name)
                  + utcoffset(tz.name)) \div 24,
     hour |-> (dt.date * 24 + dt.hour - utcoffset(dt.tzinfo.name)
                  + utcoffset(tz.name)) % 24,
     tzinfo |-> tz]

\* DateTimeRange._parse_datetime(dt) of a datetime object, self_tz being self.tz
_parse_datetime(self_tz, dt) ==
    IF dt.tzinfo = NoTz
    THEN [ok |-> TRUE, dt |-> localize(self_tz, dt)]
    ELSE IF dt.tzinfo # self_tz
    THEN Raise("ValueError",
               <<"Timezone of dt does not match the specified timezone">>)
    ELSE [ok |-> TRUE, dt |-> dt]

\* DateTimeRange(start_dt, end_dt, tz): the attributes of the new object, or
\* what _parse_datetime raised
DateTimeRange(start_dt, end_dt, tz) ==
    IF ~_parse_datetime(pytz_timezone(tz), start_dt).ok
    THEN _parse_datetime(pytz_timezone(tz), start_dt)
    ELSE IF ~_parse_datetime(pytz_timezone(tz), end_dt).ok
    THEN _parse_datetime(pytz_timezone(tz), end_dt)
    ELSE [ok |-> TRUE,
          obj |-> [tz |-> pytz_timezone(tz),
                   start_dt |-> _parse_datetime(pytz_timezone(tz), start_dt).dt,
                   end_dt |-> _parse_datetime(pytz_timezone(tz), end_dt).dt]]

\* the first lines of new_tz: a string is looked up, any object that is not a
\* pytz timezone is refused
new_tz_lookup(tz) ==
    IF tz.kind = "str"
    THEN [ok |-> TRUE, tz |-> pytz_timezone(tz.name)]
    ELSE IF tz.kind # "pytz"
    THEN Raise("ValueError", <<"Invalid timezone">>)
    ELSE [ok |-> TRUE, tz |-> tz]

\* DateTimeRange.new_tz(tz): the converted datetimes are handed to
\* DateTimeRange with its default tz
new_tz(self, tz) ==
    IF ~new_tz_lookup(tz).ok
    THEN new_tz_lookup(tz)
    ELSE DateTimeRange(astimezone(self.start_dt, new_tz_lookup(tz).tz),
                       astimezone(self.end_dt, new_tz_lookup(tz).tz), "UTC")

----------------------------------------------------------------------------
(* get_daytype_from_int and get_inrange_list *)

\* the keys of Gra2pesConfig.day_type_details, in the order of the dict
day_type_details_keys == <<"satdy", "sundy", "weekdy">>

RECURSIVE daytype_loop(_, _, _)
\* the for loop of get_daytype_from_int from the i-th item on
daytype_loop(day_int, dtd, i) ==
    IF i > Len(day_type_details_keys)
    THEN Raise("ValueError", <<"Day type not found in config">>)
    ELSE IF day_int \in dtd[day_type_details_keys[i]]
    THEN [ok |-> TRUE, day_type |-> day_type_details_keys[i]]
    ELSE daytype_loop(day_int, dtd, i + 1)

\* (mutation of get_daytype_from_int: an integer found in no list is a weekday)
get_daytype_from_int_default(day_int, dtd) ==
    IF daytype_loop(day_int, dtd, 1).ok
    THEN daytype_loop(day_int, dtd, 1)
    ELSE [ok |-> TRUE, day_type |-> "weekdy"]

\* get_daytype_from_int(day_int, config), dtd being config.day_type_details
get_daytype_from_int(day_int, dtd) == daytype_loop(day_int, dtd, 1)

\* the years a date of the model can lie in
YearsOfDates == 2020..2021

\* date.year of the date with ordinal o
year_of(o) ==
    CHOOSE y \in YearsOfDates :
        toordinal(y, 1, 1) <= o /\ o <= toordinal(y, 12, 31)

\* date.month of the date with ordinal o
month_of(o) ==
    CHOOSE m \in 1..12 :
        /\ toordinal(year_of(o), m, 1) <= o
        /\ o <= toordinal(year_of(o), m, monthrange(year_of(o), m))

\* the characters of a day type, as code points
ord_str(s) ==
    CASE s = "satdy" -> <<115, 97, 116, 100, 121>>
      [] s = "sundy" -> <<115, 117, 110, 100, 121>>
      [] s = "weekdy" -> <<119, 101, 101, 107, 100, 121>>

RECURSIVE seq_lt(_, _)
\* a < b for two sequences, as Python compares strings and tuples
seq_lt(a, b) ==
    IF a = <<>> THEN b # <<>>
    ELSE IF b = <<>> THEN FALSE
    ELSE IF Head(a) # Head(b) THEN Head(a) < Head(b)
    ELSE seq_lt(Tail(a), Tail(b))

\* (mutation of sort_key: the day type is left out of the key)
sort_key_year_month(x) == <<x.year, x.month>>

\* the key of sorted(): (x['year'], x['month'], x['day_type'])
sort_key(x) == <<x.year, x.month>> \o ord_str(x.day_type)

\* the dict built for one date of the range
yr_mo_daytype(date, dtd) ==
    [year |-> year_of(date), month |-> month_of(date),
     day_type |-> get_daytype_from_int(weekday(date), dtd).day_type]

\* yr_mo_daytypes_in_range: the dicts of the dates of the range, in order
yr_mo_daytypes_in_range(dates, dtd) ==
    [i \in DOMAIN dates |-> yr_mo_daytype(dates[i], dtd)]

\* the set comprehension over tuple(d.items()): the distinct dicts
unique_yr_mo_daytypes(dates, dtd) == Range(yr_mo_daytypes_in_range(dates, dtd))

\* the orders in which a set can be iterated
set_orders(S) ==
    {f \in [1..Cardinality(S) -> S] :
        \A i, j \in 1..Cardinality(S) : i # j => f[i] # f[j]}

\* get_inrange_list(dtr, config): self is dtr, dtd is config.day_type_details
\* and order is the list made of the set of the distinct dicts
get_inrange_list(self, dtd, order) ==
    IF \E date \in Range(get_dates_in_range(self.start_dt, self.end_dt)) :
           ~get_daytype_from_int(weekday(date), dtd).ok
    THEN Raise("ValueError", <<"Day type not found in config">>)
    ELSE [ok |-> TRUE,
          list |-> SortSeq(order,
                           LAMBDA a, b : seq_lt(sort_key(a), sort_key(b)))]

\* the first day of the datetimes of a range: Wednesday 2020-12-30
FirstDay == toordinal(2020, 12, 30)

\* the datetimes handed to DateTimeRange: at midnight or noon, naive or with
\* the tzinfo of a pytz timezone
DatetimeChoices ==
    [date : FirstDay..(FirstDay + MaxDays), hour : {0, 12},
     tzinfo : {NoTz, pytz_timezone("UTC"), pytz_timezone("Etc/GMT+7")}]

\* the tz arguments of DateTimeRange
TzArgChoices == {"UTC", "Etc/GMT+7"}

\* the tz arguments of new_tz: names, pytz timezones, and objects that are
\* neither (datetime.timezone.utc, an integer)
NewTzChoices ==
    {[kind |-> "str", name |-> n] : n \in TzNames}
        \cup {pytz_timezone(n) : n \in TzNames}
        \cup {[kind |-> "datetime.timezone", name |-> "UTC"],
              [kind |-> "int", name |-> "7"]}

\* no DateTimeRange object has been constructed
NoRange == [kind |-> "none"]
NoCall == [op |-> "none"]

InitRangeIdle ==
    /\ dtr = NoRange
    /\ dop = NoCall

----------------------------------------------------------------------------
(* Spec: one Gra2pesRegridder instance under arbitrary public calls *)

\* datasets that differ only in what create_regridder reads (projection, grid)
GridDatasets == {ds \in Datasets : ds.attrs = {} /\ ds.axes = {"utc_hour"}}
\* datasets that differ only in what proj4_from_ds reads
ProjDatasets == {ds \in GridDatasets : ds.grid = [shape |-> 1, geom |-> 1]}

NoOp == [op |-> "init", ok |-> TRUE]

\* hist follows the instance for as long as every call made on it was a
\* successful regrid(): the number of such calls (counted up to MaxCalls), the
\* regridder built in the first of them and the regridders the calls applied
\* and the non-spatial axes of the datasets they were given
InitHist == [onlyRegrid |-> TRUE, nRegridOk |-> 0, firstBuilt |-> 0, applied |-> {},
             axes |-> {}]
OtherHist == [onlyRegrid |-> FALSE, nRegridOk |-> 0, firstBuilt |-> 0, applied |-> {},
              axes |-> {}]

InitRegridder ==
    /\ regridder = Unset
    /\ nBuilt = 0
    /\ lastOp = NoOp
    /\ hist = InitHist

\* main is not running and the output directory is empty
InitBatchIdle ==
    /\ pc = "idle"
    /\ unit = 0
    /\ run = 0
    /\ free = human_to_gb(excep_thresh)
    /\ files = [p \in OutPaths |-> Absent]
    /\ dirs = {}
    /\ details = [a \in DetailFiles |-> 0]
    /\ removed = 0
    /\ log = <<>>

Init ==
    /\ InitRegridder
    /\ InitRangeIdle
    /\ InitBatchIdle
    /\ InitTimeIdle
    /\ InitParIdle
    /\ InitGridIdle

\* gra2pes_regridder.regrid(ds)
Regrid(ds) ==
    LET r == regrid(regridder, nBuilt, ds) IN
    /\ r.nBuilt <= MaxBuilt
    /\ regridder' = r.regridder
    /\ nBuilt' = r.nBuilt
    /\ lastOp' = [op |-> "regrid", ok |-> r.res.ok, in_attrs |-> AttrKeys(ds),
                  in_axes |-> ds.axes, in_grid |-> ds.grid, built |-> r.built,
                  res |-> r.res, before |-> regridder.id,
                  retry |-> lastOp.op = "regrid" /\ ~lastOp.ok /\ regridder = Unset]
    /\ hist' = IF r.res.ok /\ hist.onlyRegrid
               THEN [hist EXCEPT
                        !.nRegridOk = IF @ < MaxCalls THEN @ + 1 ELSE @,
                        !.firstBuilt = IF hist.nRegridOk = 0 THEN r.built ELSE @,
                        !.applied = @ \cup {r.res.weights.id},
                        !.axes = @ \cup {ds.axes}]
               ELSE OtherHist
    /\ UNCHANGED <<bvars, tvars, pvars, gvars, dvars>>

\* gra2pes_regridder.create_regridder(ds, save_to_self)
CreateRegridder(ds, save_to_self) ==
    LET c == create_regridder(ds, nBuilt) IN
    /\ nBuilt < MaxBuilt
    /\ regridder' = IF c.ok THEN store_regridder(regridder, c.regridder, save_to_self)
                    ELSE regridder
    /\ nBuilt' = IF c.ok THEN nBuilt + 1 ELSE nBuilt
    /\ lastOp' = [op |-> "create_regridder", ok |-> c.ok,
                  save_to_self |-> save_to_self, res |-> c, before |-> regridder.id]
    /\ hist' = OtherHist
    /\ UNCHANGED <<bvars, tvars, pvars, gvars, dvars>>

\* gra2pes_regridder.save_regrid_weights(save_path): self.regridder.to_netcdf;
\* AttributeError when the instance holds no regridder
SaveRegridWeights ==
    /\ lastOp' = [op |-> "save_regrid_weights", ok |-> regridder # Unset,
                  saved |-> regridder.id, before |-> regridder.id]
    /\ hist' = OtherHist
    /\ UNCHANGED <<regridder, nBuilt, bvars, tvars, pvars, gvars, dvars>>

\* gra2pes_regridder.proj4_from_ds(ds, map_proj, earth_rep)
Proj4FromDs(ds, map_proj, earth_rep) ==
    /\ lastOp' = [op |-> "proj4_from_ds", ok |-> proj4_from_ds(ds, map_proj, earth_rep).ok,
                  MAP_PROJ_CHAR |-> ds.MAP_PROJ_CHAR, map_proj |-> map_proj,
                  res |-> proj4_from_ds(ds, map_proj, earth_rep), before |-> regridder.id]
    /\ hist' = OtherHist
    /\ UNCHANGED <<regridder, nBuilt, bvars, tvars, pvars, gvars, dvars>>

Next ==
    \/ \E ds \in Datasets : Regrid(ds)
    \/ \E ds \in GridDatasets, s \in BOOLEAN : CreateRegridder(ds, s)
    \/ SaveRegridWeights
    \/ \E ds \in ProjDatasets, mp \in {None, "lcc"}, er \in {"sphere", "ellipsoid"} :
          Proj4FromDs(ds, mp, er)

Spec == Init /\ [][Next]_vars

----------------------------------------------------------------------------
(* SpecBatch: runs of main over one output directory *)

Ev(e, k) == [ev |-> e, unit |-> k]

RECURSIVE Events(_, _)
Events(es, k) == IF es = <<>> THEN <<>> ELSE <<Ev(Head(es), k)>> \o Events(Tail(es), k)

InitBatch ==
    /\ InitRegridder
    /\ InitRangeIdle
    /\ InitTimeIdle
    /\ InitParIdle
    /\ InitGridIdle
    /\ pc = "idle"
    /\ unit = 0
    /\ run = 0
    /\ free \in (human_to_gb(excep_thresh) - 1)..(human_to_gb(excep_thresh) + MaxSpareGb)
    /\ files = [p \in OutPaths |-> Absent]
    /\ dirs = {}
    /\ details = [a \in DetailFiles |-> 0]
    /\ removed = 0
    /\ log = <<>>

\* python gra2pes_regrid.py: main up to the loop, with a new regridder instance
StartMain ==
    /\ pc \in {"idle", "done", "failed"}
    /\ run < MaxRuns
    /\ run' = run + 1
    /\ pc' = "check_space"
    /\ unit' = 1
    /\ dirs' = dirs \cup {<<>>}
    /\ regridder' = Unset
    /\ log' = <<>>
    /\ UNCHANGED <<nBuilt, lastOp, hist, free, files, details, removed, tvars, pvars, gvars, dvars>>

\* gen_utils.check_space(regrid_config.regridded_path) of the loop body
CheckSpace ==
    /\ pc = "check_space"
    /\ IF check_space(free)
       THEN /\ pc' = "load_regrid_save"
            /\ log' = Append(log, Ev("check_space", unit))
       ELSE /\ pc' = "failed"
            /\ log' = Append(log, Ev("MemoryError", unit))
    /\ UNCHANGED <<rvars, unit, run, free, files, dirs, details, removed, tvars, pvars, gvars, dvars>>

\* (mutation of after_raise: the exception is swallowed and the loop goes on)
after_raise_continue(k) ==
    [pc |-> IF k = NUnits THEN "details" ELSE "check_space",
     unit |-> IF k = NUnits THEN k ELSE k + 1]

\* except Exception as e: raise Exception(e) -- main ends at unit k
after_raise(k) == [pc |-> "failed", unit |-> k]

\* the try of the loop body: load_regrid_save, any exception raised again
LoadRegridSave(load, post, gb) ==
    LET r == load_regrid_save(files, dirs, regridder, nBuilt, unit, load, post, run, gb) IN
    /\ pc = "load_regrid_save"
    /\ r.nBuilt <= MaxBuilt
    /\ files' = r.files
    /\ dirs' = r.dirs
    /\ regridder' = r.regridder
    /\ nBuilt' = r.nBuilt
    /\ free' = free - r.gb
    /\ IF r.ok
       THEN /\ log' = log \o Events(r.events, unit)
            /\ pc' = IF unit = NUnits THEN "details" ELSE "check_space"
            /\ unit' = IF unit = NUnits THEN unit ELSE unit + 1
       ELSE /\ log' = (log \o Events(r.events, unit)) \o <<Ev("Exception", unit)>>
            /\ pc' = after_raise(unit).pc
            /\ unit' = after_raise(unit).unit
    /\ UNCHANGED <<lastOp, hist, run, details, removed, tvars, pvars, gvars, dvars>>

\* main after the loop: the example dataset of the first unit is loaded and
\* regridded, then grid_out.nc, regrid_details.txt, regrid_config.pkl and the
\* regrid weights are written
WriteDetails(load) ==
    LET g == regrid(regridder, nBuilt, base_ds(Unit(1), load.proj)) IN
    /\ pc = "details"
    /\ dirs' = dirs \cup {<<"details">>}
    /\ IF load.ok /\ g.res.ok
       THEN /\ details' = [a \in DetailFiles |-> run]
            /\ regridder' = g.regridder
            /\ nBuilt' = g.nBuilt
            /\ log' = Append(log, Ev("details", 0))
            /\ pc' = "done"
       ELSE /\ details' = details
            /\ regridder' = regridder
            /\ nBuilt' = nBuilt
            /\ log' = Append(log, Ev("Exception", 0))
            /\ pc' = "failed"
    /\ UNCHANGED <<lastOp, hist, unit, run, free, files, removed, tvars, pvars, gvars, dvars>>

\* between runs the user removes an output file
RemoveOutput(p) ==
    /\ pc \in {"done", "failed"}
    /\ removed < MaxRemovals
    /\ files[p] # Absent
    /\ files' = [files EXCEPT ![p] = Absent]
    /\ removed' = removed + 1
    /\ UNCHANGED <<rvars, pc, unit, run, free, dirs, details, log, tvars, pvars, gvars, dvars>>

NextBatch ==
    \/ StartMain
    \/ CheckSpace
    \/ \E load \in LoadChoices, post \in PostProcessChoices, gb \in 0..1 :
          LoadRegridSave(load, post, gb)
    \/ \E load \in LoadChoices : WriteDetails(load)
    \/ \E p \in OutPaths : RemoveOutput(p)

SpecBatch == InitBatch /\ [][NextBatch]_vars

----------------------------------------------------------------------------
(* SpecTime: the actions *)

InitTime ==
    /\ InitRegridder
    /\ InitRangeIdle
    /\ InitBatchIdle
    /\ \E P \in SUBSET (YearChoices \X MonthChoices), D \in DayTypeSets,
          H \in SUBSET HourChoices :
          /\ 1 <= Cardinality(P) /\ Cardinality(P) <= MaxPairs
          /\ H # {}
          /\ tds = source_ds(P, D, H)
    /\ tpc = "loop"
    /\ tpos = 0
    /\ combined_ds_list = <<>>
    /\ combined_ds = <<>>
    /\ config_dtd = day_type_details
    /\ InitParIdle
    /\ InitGridIdle

\* the (year, month) of the iteration after n iterations: year is the outer loop
loop_year(ds, n) == ds.years[(n \div Len(ds.months)) + 1]
loop_month(ds, n) == ds.months[(n % Len(ds.months)) + 1]

\* one iteration of the loops of rework_ds_dt
ReworkMonth ==
    LET r == new_month_ds(tds, config_dtd, loop_year(tds, tpos), loop_month(tds, tpos)) IN
    /\ tpc = "loop"
    /\ tpos < Len(tds.years) * Len(tds.months)
    /\ IF r.ok
       THEN /\ combined_ds_list' = Append(combined_ds_list, r.ds)
            /\ tpos' = tpos + 1
            /\ tpc' = "loop"
       ELSE /\ combined_ds_list' = combined_ds_list
            /\ tpos' = tpos
            /\ tpc' = "failed"
    /\ UNCHANGED <<rvars, bvars, tds, combined_ds, config_dtd, pvars, gvars, dvars>>

\* after the loops: the concatenation of all months, sorted, is returned
ReworkReturn ==
    /\ tpc = "loop"
    /\ tpos = Len(tds.years) * Len(tds.months)
    /\ combined_ds' = sortby_datetime(concat(combined_ds_list))
    /\ tpc' = "done"
    /\ UNCHANGED <<rvars, bvars, tds, tpos, combined_ds_list, config_dtd, pvars, gvars, dvars>>

NextTime ==
    \/ ReworkMonth
    \/ ReworkReturn

SpecTime == InitTime /\ [][NextTime]_vars

\* values of config.day_type_details: the one Gra2pesConfig sets, and one whose
\* 'weekdy' list also holds Saturday
DayTypeDetailsChoices ==
    {day_type_details,
     [satdy |-> {5}, sundy |-> {6}, weekdy |-> {0, 1, 2, 3, 4, 5}]}

\* rework_ds_dt of a handler whose config carries any of these classifications
InitTimeCfg ==
    /\ InitRegridder
    /\ InitRangeIdle
    /\ InitBatchIdle
    /\ InitParIdle
    /\ InitGridIdle
    /\ \E P \in SUBSET (YearChoices \X MonthChoices), D \in DayTypeSets,
          H \in SUBSET HourChoices :
          /\ 1 <= Cardinality(P) /\ Cardinality(P) <= MaxPairs
          /\ H # {}
          /\ tds = source_ds(P, D, H)
    /\ config_dtd \in DayTypeDetailsChoices
    /\ tpc = "loop"
    /\ tpos = 0
    /\ combined_ds_list = <<>>
    /\ combined_ds = <<>>

SpecTimeCfg == InitTimeCfg /\ [][NextTime]_vars

----------------------------------------------------------------------------
(* SpecPar: regrid() calls of several units on one Gra2pesRegridder instance,
   interleaved statement by statement; the first call returns before any
   other starts, as in the loop of main *)

\* (mutation of has_regridder: the attribute is never found)
has_regridder_never(r) == FALSE

\* try: self.regridder -- whether the attribute exists
has_regridder(r) == r # Unset

\* the first call has returned: in main a unit starts when the one before it
\* has returned
first_call_returned(pcs) == pcs[1] = "done"

\* datasets of the units: the grids of GridChoices, and a dataset whose
\* projection create_regridder rejects
ParDatasets ==
    {grid_ds(g) : g \in GridChoices}
        \cup {[grid_ds([shape |-> 1, geom |-> 1]) EXCEPT !.MAP_PROJ_CHAR = "Mercator"]}

InitPar ==
    /\ InitRegridder
    /\ InitRangeIdle
    /\ InitBatchIdle
    /\ InitTimeIdle
    /\ InitGridIdle
    /\ thread_pc = [u \in Threads |-> IF u = 1 THEN "lookup" ELSE "waiting"]
    /\ thread_ds \in [Threads -> ParDatasets]
    /\ thread_new = [u \in Threads |-> Unset]
    /\ thread_applied = [u \in Threads |-> 0]

\* a later unit calls regrid(ds)
ThreadStart(u) ==
    /\ u # 1
    /\ thread_pc[u] = "waiting"
    /\ first_call_returned(thread_pc)
    /\ thread_pc' = [thread_pc EXCEPT ![u] = "lookup"]
    /\ UNCHANGED <<rvars, bvars, tvars, thread_ds, thread_new, thread_applied, gvars, dvars>>

\* try: self.regridder / except:
ThreadLookup(u) ==
    /\ thread_pc[u] = "lookup"
    /\ thread_pc' = [thread_pc EXCEPT
                        ![u] = IF has_regridder(regridder) THEN "apply" ELSE "create"]
    /\ UNCHANGED <<rvars, bvars, tvars, thread_ds, thread_new, thread_applied, gvars, dvars>>

\* self.create_regridder(ds): the weight computation, or its exception
ThreadCreate(u) ==
    LET c == create_regridder(thread_ds[u], nBuilt) IN
    /\ thread_pc[u] = "create"
    /\ IF c.ok
       THEN /\ thread_new' = [thread_new EXCEPT ![u] = c.regridder]
            /\ nBuilt' = nBuilt + 1
            /\ thread_pc' = [thread_pc EXCEPT ![u] = "store"]
       ELSE /\ thread_new' = thread_new
            /\ nBuilt' = nBuilt
            /\ thread_pc' = [thread_pc EXCEPT ![u] = "failed"]
    /\ UNCHANGED <<regridder, lastOp, hist, bvars, tvars, thread_ds, thread_applied, gvars, dvars>>

\* self.regridder = (what create_regridder returned)
ThreadStore(u) ==
    /\ thread_pc[u] = "store"
    /\ regridder' = thread_new[u]
    /\ thread_new' = [thread_new EXCEPT ![u] = Unset]
    /\ thread_pc' = [thread_pc EXCEPT ![u] = "apply"]
    /\ UNCHANGED <<nBuilt, lastOp, hist, bvars, tvars, thread_ds, thread_applied, gvars, dvars>>

\* self.regridder(ds, keep_attrs = True) and the return, or its exception
ThreadApply(u) ==
    LET out == apply_regridder(regridder, thread_ds[u]) IN
    /\ thread_pc[u] = "apply"
    /\ IF out.ok
       THEN /\ thread_applied' = [thread_applied EXCEPT ![u] = out.weights.id]
            /\ thread_pc' = [thread_pc EXCEPT ![u] = "done"]
       ELSE /\ thread_applied' = thread_applied
            /\ thread_pc' = [thread_pc EXCEPT ![u] = "failed"]
    /\ UNCHANGED <<rvars, bvars, tvars, thread_ds, thread_new, gvars, dvars>>

NextPar ==
    \/ \E u \in Threads : ThreadStart(u)
    \/ \E u \in Threads : ThreadLookup(u)
    \/ \E u \in Threads : ThreadCreate(u)
    \/ \E u \in Threads : ThreadStore(u)
    \/ \E u \in Threads : ThreadApply(u)

SpecPar == InitPar /\ [][NextPar]_vars

----------------------------------------------------------------------------
(* SpecGrid: the grids handed to xe.Regridder -- create_ingrid and
   get_grid_out on bounded arguments. The arithmetic is exact: plane
   coordinates and degrees are counted in halves of the unit the spacings
   are given in, so that spacing / 2 is a whole number of them. *)

\* np.arange(n): 0, 1, ..., n - 1
np_arange(n) == [k \in 1..n |-> k - 1]

\* (mutation of corner: n in the place of n - 1)
corner_n(nn, d, c) == -nn * d + c

\* x0 = -(nx-1) / 2. * dx + e: the bottom left cell centre, in halves, from the
\* number of cells nn, the spacing d and the centre c (in halves)
corner(nn, d, c) == -(nn - 1) * d + c

\* np.arange(nx+1) * dx + x0 - dx/2: the boundary coordinates of one axis
boundary_coords(nn, d, c) ==
    [k \in 1..(nn + 1) |-> 2 * (np_arange(nn + 1)[k] * d) + corner(nn, d, c) - d]

\* (mutation of meshgrid: indexing = 'ij')
meshgrid_ij(xs, ys) ==
    [X |-> [i \in 1..Len(xs) |-> [j \in 1..Len(ys) |-> xs[i]]],
     Y |-> [i \in 1..Len(xs) |-> [j \in 1..Len(ys) |-> ys[j]]]]

\* np.meshgrid(xs, ys): two arrays of Len(ys) rows and Len(xs) columns
meshgrid(xs, ys) ==
    [X |-> [i \in 1..Len(ys) |-> [j \in 1..Len(xs) |-> xs[j]]],
     Y |-> [i \in 1..Len(ys) |-> [j \in 1..Len(xs) |-> ys[i]]]]

\* lcc_to_wgs.transform(x_b, y_b): the longitude and latitude of every point
\* of the two arrays, element by element
lcc_to_wgs_transform(x_b, y_b) ==
    [x_bc |-> [i \in DOMAIN x_b |-> [j \in DOMAIN x_b[i] |->
                  [lon_of |-> <<x_b[i][j], y_b[i][j]>>]]],
     y_bc |-> [i \in DOMAIN x_b |-> [j \in DOMAIN x_b[i] |->
                  [lat_of |-> <<x_b[i][j], y_b[i][j]>>]]]]

\* create_ingrid(ds) for a dataset with west_east = a.nx, south_north = a.ny,
\* DX = a.dx, DY = a.dy whose centre transforms to (a.e, a.n) (in halves)
grid_in(a) ==
    LET b == meshgrid(boundary_coords(a.nx, a.dx, a.e),
                      boundary_coords(a.ny, a.dy, a.n))
        bc == lcc_to_wgs_transform(b.X, b.Y)
    IN [kind |-> "grid_in",
        lat |-> [i \in 1..a.ny |-> [j \in 1..a.nx |-> [XLAT |-> <<i, j>>]]],
        lon |-> [i \in 1..a.ny |-> [j \in 1..a.nx |-> [XLONG |-> <<i, j>>]]],
        lat_b |-> bc.y_bc, lon_b |-> bc.x_bc,
        x_b |-> b.X, y_b |-> b.Y]

\* the domain centres (in halves) the datasets are drawn from
CentreChoices == {-3, 0, 4}

IngridArgs ==
    [kind : {"create_ingrid"}, nx : 1..MaxN, ny : 1..MaxN,
     dx : 1..MaxSpacing, dy : 1..MaxSpacing, e : CentreChoices, n : CentreChoices]

\* the number of values of np.arange(start, stop, step) for step > 0:
\* ceil((stop - start) / step), none when stop <= start
arange_len(start, stop, step) ==
    IF stop <= start THEN 0 ELSE (stop - start + step - 1) \div step

\* np.arange(start, stop, step)
arange(start, stop, step) ==
    [k \in 1..arange_len(start, stop, step) |-> start + (k - 1) * step]

\* (mutation of bounds_arange: the stop is the end of the centre range)
bounds_arange_short(lo, hi, sp) == arange(2 * lo - sp, 2 * hi, 2 * sp)

\* np.arange(lo - spacing / 2, hi + spacing / 2, spacing), in halves
bounds_arange(lo, hi, sp) == arange(2 * lo - sp, 2 * hi + sp, 2 * sp)

\* np.arange(lo, hi, spacing), in halves
centers_arange(lo, hi, sp) == arange(2 * lo, 2 * hi, 2 * sp)

\* Gra2pesRegridConfig.get_grid_out
get_grid_out(a) ==
    [kind |-> "grid_out",
     lat |-> centers_arange(a.lat_center_range[1], a.lat_center_range[2], a.lat_spacing),
     lon |-> centers_arange(a.lon_center_range[1], a.lon_center_range[2], a.lon_spacing),
     lat_b |-> bounds_arange(a.lat_center_range[1], a.lat_center_range[2], a.lat_spacing),
     lon_b |-> bounds_arange(a.lon_center_range[1], a.lon_center_range[2], a.lon_spacing)]

\* centre ranges (lo, hi) with lo < hi
CenterRanges == {<<lo, lo + w>> : lo \in {-1, 0}, w \in 1..MaxSpan}

GridOutArgs ==
    [kind : {"get_grid_out"}, lat_center_range : CenterRanges,
     lon_center_range : {<<0, 3>>, <<-1, 1>>},
     lat_spacing : 1..MaxSpacing, lon_spacing : 1..MaxSpacing]

InitGrid ==
    /\ InitRegridder
    /\ InitRangeIdle
    /\ InitBatchIdle
    /\ InitTimeIdle
    /\ InitParIdle
    /\ grid_args \in IngridArgs \cup GridOutArgs
    /\ grid_res = NoGrid

\* gra2pes_regridder.create_ingrid(ds)
CreateIngrid ==
    /\ grid_args.kind = "create_ingrid"
    /\ grid_res = NoGrid
    /\ grid_res' = grid_in(grid_args)
    /\ UNCHANGED <<rvars, bvars, tvars, pvars, grid_args, dvars>>

\* Gra2pesRegridConfig(config).grid_out
GetGridOut ==
    /\ grid_args.kind = "get_grid_out"
    /\ grid_res = NoGrid
    /\ grid_res' = get_grid_out(grid_args)
    /\ UNCHANGED <<rvars, bvars, tvars, pvars, grid_args, dvars>>

NextGrid ==
    \/ CreateIngrid
    \/ GetGridOut

SpecGrid == InitGrid /\ [][NextGrid]_vars

----------------------------------------------------------------------------
(* SpecRange: a DateTimeRange object and the calls made with it *)

\* the behaviours start from Init: no DateTimeRange object, no call made

\* dtr = DateTimeRange(start_dt, end_dt, tz), the first call of the behaviour
NewDateTimeRange(start_dt, end_dt, tz) ==
    /\ dtr = NoRange
    /\ dop = NoCall
    /\ dop' = [op |-> "DateTimeRange",
               args |-> [start_dt |-> start_dt, end_dt |-> end_dt, tz |-> tz],
               res |-> DateTimeRange(start_dt, end_dt, tz)]
    /\ dtr' = IF DateTimeRange(start_dt, end_dt, tz).ok
              THEN DateTimeRange(start_dt, end_dt, tz).obj
              ELSE NoRange
    /\ UNCHANGED <<rvars, bvars, tvars, pvars, gvars>>

\* dtr.get_dates_in_range()
GetDatesInRange ==
    /\ dtr # NoRange
    /\ dop' = [op |-> "get_dates_in_range",
               res |-> get_dates_in_range(dtr.start_dt, dtr.end_dt)]
    /\ UNCHANGED <<dtr, rvars, bvars, tvars, pvars, gvars>>

\* dtr.new_tz(tz)
NewTz(tz) ==
    /\ dtr # NoRange
    /\ dop' = [op |-> "new_tz", args |-> [tz |-> tz], res |-> new_tz(dtr, tz)]
    /\ UNCHANGED <<dtr, rvars, bvars, tvars, pvars, gvars>>

\* get_inrange_list(dtr, config)
GetInrangeList ==
    /\ dtr # NoRange
    /\ \E order \in set_orders(unique_yr_mo_daytypes(
                        get_dates_in_range(dtr.start_dt, dtr.end_dt), config_dtd)) :
           dop' = [op |-> "get_inrange_list",
                   res |-> get_inrange_list(dtr, config_dtd, order)]
    /\ UNCHANGED <<dtr, rvars, bvars, tvars, pvars, gvars>>

\* get_daytype_from_int(day_int, config)
GetDaytypeFromInt(day_int) ==
    /\ dop' = [op |-> "get_daytype_from_int", args |-> [day_int |-> day_int],
               res |-> get_daytype_from_int(day_int, config_dtd)]
    /\ UNCHANGED <<dtr, rvars, bvars, tvars, pvars, gvars>>

NextRange ==
    \/ \E start_dt \in DatetimeChoices, end_dt \in DatetimeChoices,
          tz \in TzArgChoices : NewDateTimeRange(start_dt, end_dt, tz)
    \/ GetDatesInRange
    \/ \E tz \in NewTzChoices : NewTz(tz)
    \/ GetInrangeList
    \/ \E day_int \in 0..MaxDayInt : GetDaytypeFromInt(day_int)

SpecRange == Init /\ [][NextRange]_vars

----------------------------------------------------------------------------
(* Properties of the batch *)

Last(sq) == sq[Len(sq)]

\* the events of the log that are steps of load_regrid_save
UnitSteps == {"load", "regrid", "write"}

\* C3: load_regrid_save for a unit whose target file exists raises before the
\* base data is loaded, before regrid() is called and before anything is
\* written, leaving the file as it is; no run or re-run overwrites an output
\* file (a file changes only by being removed by the user).
C3_ExistingOutputKept ==
    [][/\ (pc = "load_regrid_save" /\ files[save_path(Unit(unit))] # Absent) =>
             /\ pc' = "failed"
             /\ log' = Append(log, Ev("Exception", unit))
             /\ files' = files /\ dirs' = dirs /\ details' = details
             /\ regridder' = regridder /\ nBuilt' = nBuilt
       /\ \A p \in OutPaths :
             files[p] # Absent => files'[p] \in {files[p], Absent}]_vars

\* a re-run wrote the unit whose file had been removed and then stopped at the
\* next unit, whose file the first run had written
C3_Witness ==
    /\ pc = "failed" /\ run = 2 /\ unit >= 2
    /\ files[save_path(Unit(unit))].run = 1
    /\ files[save_path(Unit(unit - 1))].run = 2
    /\ Len(log) >= 2
    /\ Last(log) = Ev("Exception", unit)
    /\ log[Len(log) - 1] = Ev("check_space", unit)

\* C4: when load_regrid_save raises for a unit, main ends there: the exception
\* is the last thing the run does (the unit is not retried, no later unit is
\* checked, loaded, regridded or written), the details artifacts are not
\* written by the run, and the step leaves the files written before in place.
C4_FailedUnitAbortsBatch ==
    /\ [](\A i \in 1..Len(log) :
            log[i].ev = "Exception" =>
                /\ i = Len(log)
                /\ pc = "failed"
                /\ \A a \in DetailFiles : details[a] # run)
    /\ [][(pc = "load_regrid_save" /\ Last(log') = Ev("Exception", unit)) =>
             /\ pc' = "failed"
             /\ files' = files /\ details' = details]_vars
    /\ [][pc = "failed" => (pc' = "failed" \/ run' = run + 1)]_vars

\* a unit failed after earlier units of the same run were written, with units
\* still to come
C4_Witness ==
    /\ pc = "failed" /\ 2 <= unit /\ unit < NUnits
    /\ Last(log) = Ev("Exception", unit)
    /\ \A k \in 1..(unit - 1) : files[save_path(Unit(k))].run = run
    /\ \E i \in 1..Len(log) : log[i] = Ev("write", unit - 1)

\* C5: in the batch loop check_space comes before every unit's
\* load_regrid_save; with the free space below the threshold it raises
\* MemoryError before the unit loads, regrids or writes anything and the run
\* ends there.
C5_SpaceCheckedFirst ==
    /\ [](/\ pc = "load_regrid_save" =>
               (Len(log) >= 1 /\ Last(log) = Ev("check_space", unit))
          /\ \A i \in 1..Len(log) :
               /\ log[i].ev \in UnitSteps =>
                     \E j \in 1..(i - 1) : log[j] = Ev("check_space", log[i].unit)
               /\ log[i].ev = "MemoryError" =>
                     /\ i = Len(log)
                     /\ pc = "failed"
                     /\ \A j \in 1..Len(log) :
                           log[j].unit = log[i].unit => log[j].ev \notin UnitSteps)
    /\ [][(pc = "check_space" /\ free < 8 * 1024) =>
             /\ pc' = "failed"
             /\ Last(log') = Ev("MemoryError", unit)
             /\ files' = files /\ dirs' = dirs /\ details' = details
             /\ regridder' = regridder /\ nBuilt' = nBuilt]_vars

\* the space ran out in the middle of a batch: check_space stopped the run at
\* a unit after earlier units were written
C5_Witness ==
    /\ pc = "failed" /\ unit >= 2
    /\ Last(log) = Ev("MemoryError", unit)
    /\ free < 8 * 1024
    /\ \E i \in 1..Len(log) : log[i] = Ev("write", unit - 1)

\* C14: the weights a run of main saved to regrid_weights.nc are loaded by a
\* later run (same grid signature) instead of being computed again: once the
\* weights file of an earlier run exists, a later run constructs no regridder.
C14_PersistedWeightsReloaded ==
    [][(details["regrid_weights.nc"] # 0 /\ details["regrid_weights.nc"] < run) =>
          nBuilt' = nBuilt]_vars

\* C16: every output file load_regrid_save has written carries the git_hash
\* attribute, and every other attribute of it is one of sector, year, month,
\* day_type, TITLE and regrid_method, with sum_on_dim as the pre-process and
\* with or without slice_extent as the post-process.
C16_FileAttrs ==
    \A p \in OutPaths :
        files[p] # Absent =>
            /\ "git_hash" \in files[p].attrs
            /\ files[p].attrs \ {"git_hash"}
                  \subseteq {"sector", "year", "month", "day_type", "TITLE",
                             "regrid_method"}

\* a unit was written: of the attributes of the base file (CEN_LAT, DX and
\* MAP_PROJ_CHAR among them) the allow-listed ones are in the output file,
\* with regrid_method and git_hash
C16_Witness ==
    /\ Len(log) >= 1 /\ Last(log) = Ev("write", 1)
    /\ {"CEN_LAT", "DX"} \subseteq base_ds(Unit(1), "Lambert Conformal").attrs
    /\ files[save_path(Unit(1))].attrs
          = {"sector", "year", "month", "day_type", "TITLE", "regrid_method",
             "git_hash"}

----------------------------------------------------------------------------
(* Properties of the regridder instance *)

\* C1: as long as only successful regrid() calls were made on the instance, the
\* weight computation (the xe.Regridder construction) ran exactly once, in the
\* first call, and every call applied the regridder built there, whatever the
\* non-spatial axes of its dataset.
C1_WeightsComputedOnce ==
    (hist.onlyRegrid /\ hist.nRegridOk >= 1) =>
        /\ nBuilt = 1
        /\ hist.firstBuilt = 1
        /\ hist.applied = {hist.firstBuilt}
        /\ regridder.id = hist.firstBuilt
        /\ lastOp.built = (IF hist.nRegridOk = 1 THEN 1 ELSE 0)

\* a later successful regrid() call reused the first call's regridder on a
\* dataset with other non-spatial axes
C1_Witness ==
    /\ hist.onlyRegrid
    /\ hist.nRegridOk >= 2
    /\ Cardinality(hist.axes) = 2
    /\ lastOp.op = "regrid" /\ lastOp.built = 0 /\ lastOp.res.weights.id = 1

\* C2 as stated: once the instance holds a regridder, no public call replaces
\* or removes it.
C2_NeverReplaced == [][regridder # Unset => regridder' = regridder]_rvars

\* C2 amended: once the instance holds a regridder it always holds one;
\* regrid, create_regridder(save_to_self = False), save_regrid_weights and
\* proj4_from_ds leave the stored object alone, and only
\* create_regridder(save_to_self = True) replaces it, by the regridder it built.
C2_ReplacedOnlyBySaveToSelf ==
    [][regridder # Unset =>
          /\ regridder' # Unset
          /\ regridder' # regridder =>
                /\ lastOp'.op = "create_regridder"
                /\ lastOp'.save_to_self
                /\ lastOp'.res.ok
                /\ regridder' = lastOp'.res.regridder]_rvars

\* create_regridder(ds, save_to_self = True) replaced a stored regridder
C2_Witness ==
    /\ lastOp.op = "create_regridder" /\ lastOp.save_to_self /\ lastOp.ok
    /\ lastOp.before # 0
    /\ regridder.id # lastOp.before

\* C6 as stated: the attribute keys regrid() returns are exactly the
\* allow-listed keys that were present before regridding.
C6_AttrsArePriorAllowed ==
    (lastOp.op = "regrid" /\ lastOp.ok) =>
        lastOp.res.attrs = lastOp.in_attrs \cap keep_attrs

\* C6 amended: the attribute keys regrid() returns are exactly the allow-listed
\* keys among the attributes present before regridding together with
\* regrid_method, which the regridder sets on its output: no key outside the
\* allow-list survives and no allow-listed key that was present is lost.
C6_AttrsPruned ==
    (lastOp.op = "regrid" /\ lastOp.ok) =>
        /\ lastOp.res.attrs = (lastOp.in_attrs \cup {"regrid_method"}) \cap keep_attrs
        /\ lastOp.res.attrs \subseteq keep_attrs
        /\ lastOp.in_attrs \cap keep_attrs \subseteq lastOp.res.attrs

\* regrid() returned for a dataset with an allow-listed and other attributes
\* and without regrid_method
C6_Witness ==
    /\ lastOp.op = "regrid" /\ lastOp.ok
    /\ lastOp.in_attrs = {"sector", "CEN_LAT", "MAP_PROJ_CHAR"}
    /\ lastOp.res.attrs = {"sector", "regrid_method"}

\* C7: proj4_from_ds without an explicit map_proj on a dataset whose
\* MAP_PROJ_CHAR is not 'Lambert Conformal' fails with an error that names the
\* unrecognized value, and returns no proj4 string.
C7_ErrorNamesProjection ==
    (/\ lastOp.op = "proj4_from_ds"
     /\ lastOp.map_proj = None
     /\ lastOp.MAP_PROJ_CHAR \notin {"Lambert Conformal", NoAttr}) =>
        /\ ~lastOp.ok
        /\ lastOp.MAP_PROJ_CHAR \in Range(lastOp.res.msg)

\* C13: weights are keyed by grid signature: a regrid() call that returns has
\* applied weights built from a dataset of the same grid geometry (shape,
\* spacing, projection parameters) as its own; stored weights are never
\* applied to a dataset of another geometry.
C13_WeightsKeyedByGrid ==
    (lastOp.op = "regrid" /\ lastOp.ok) =>
        lastOp.res.weights.grid = lastOp.in_grid

\* C22: a regrid() call whose weights leave an output cell without any
\* overlapping input cell does not raise for that reason (it fails only
\* without weights or for the shape of the dataset), and in what it returns every
\* such cell holds a missing value, not zero and not data.
C22_UnmappedCellsAreNaN ==
    lastOp.op = "regrid" =>
        /\ lastOp.ok =>
              \A c \in OutCells \ covered_cells(lastOp.res.weights.grid) :
                  lastOp.res.cells[c] = "nan"
        /\ ~lastOp.ok =>
              \/ regridder = Unset
              \/ regridder.grid.shape # lastOp.in_grid.shape

\* the part of C22 that holds: with weights for the shape of the dataset the
\* call returns, whichever output cells the input grid leaves uncovered
C22_NoRaiseOnUncovered ==
    (lastOp.op = "regrid" /\ ~lastOp.ok) =>
        \/ regridder = Unset
        \/ regridder.grid.shape # lastOp.in_grid.shape

----------------------------------------------------------------------------
(* Properties of rework_ds_dt *)

AllDayTypes == {"weekdy", "satdy", "sundy"}

\* the bucket of a weekday: Monday to Friday, Saturday, Sunday
Bucket(wd) == IF wd \in 0..4 THEN "weekdy" ELSE IF wd = 5 THEN "satdy" ELSE "sundy"

\* the timestamps of all (calendar date of the month, source hour) pairs
MonthTimestamps(y, m, hours) ==
    {Timestamp(toordinal(y, m, d), hours[k]) : d \in 1..monthrange(y, m), k \in DOMAIN hours}

\* the day types the entries of one date were expanded from
BucketsOfDate(series, date) ==
    {series[i].value[3] : i \in {j \in DOMAIN series : series[j].datetime \div 24 = date}}

\* C8: for a dataset of one (year, month) with all three day types and H
\* utc_hour values, rework_ds_dt returns (days in month) x H timestamps, every
\* (date of the month, source hour) pair exactly once, and every date of the
\* month is expanded from exactly one day-type bucket.
C8_MonthCoveredOnce ==
    (tpc = "done" /\ Cardinality(tds.pairs) = 1 /\ tds.day_types = AllDayTypes) =>
        LET y == tds.years[1]
            m == tds.months[1]
        IN /\ Len(combined_ds) = monthrange(y, m) * Len(tds.hours)
           /\ {combined_ds[i].datetime : i \in DOMAIN combined_ds}
                 = MonthTimestamps(y, m, tds.hours)
           /\ Cardinality(MonthTimestamps(y, m, tds.hours)) = Len(combined_ds)
           /\ \A d \in 1..monthrange(y, m) :
                 Cardinality(BucketsOfDate(combined_ds, toordinal(y, m, d))) = 1

\* June 2021 with the hours 0, 1 and 23: 30 x 3 timestamps from June 1 00:00
\* to June 30 23:00
C8_Witness ==
    /\ tpc = "done"
    /\ tds.pairs = {<<2021, 6>>} /\ tds.hours = <<0, 1, 23>>
    /\ tds.day_types = AllDayTypes
    /\ Len(combined_ds) = 30 * 3
    /\ combined_ds[1].datetime = 17710608
    /\ combined_ds[90].datetime = 17710608 + 29 * 24 + 23

\* what the dataset holds for the date d of (y, m) at hour h: the value of the
\* bucket of the date's weekday
ExpectedEntry(ds, y, m, d, h) ==
    [datetime |-> Timestamp(toordinal(y, m, d), h),
     value |-> ds_value(ds, y, m, Bucket(weekday(toordinal(y, m, d))), h)]

ExpectedEntries(ds) ==
    UNION {{ExpectedEntry(ds, ds.years[a], ds.months[b], d, ds.hours[k]) :
               d \in 1..monthrange(ds.years[a], ds.months[b]), k \in DOMAIN ds.hours} :
           a \in DOMAIN ds.years, b \in DOMAIN ds.months}

\* C9: in the output of rework_ds_dt the value at the timestamp (date d, hour h)
\* is the value the dataset holds for d's bucket at utc_hour h, the bucket being
\* weekdy for Monday to Friday, satdy for Saturday and sundy for Sunday: the
\* datetime index lines up with the stacked data for every date and hour.
C9_ValuesOfBucket ==
    tpc = "done" =>
        /\ {combined_ds[i] : i \in DOMAIN combined_ds} = ExpectedEntries(tds)
        /\ Len(combined_ds) = Cardinality(ExpectedEntries(tds))

\* June 5 2021, a Saturday, carries the satdy value of hour 23 and June 7, a
\* Monday, the weekdy value of hour 1
C9_Witness ==
    /\ tpc = "done"
    /\ tds.pairs = {<<2021, 6>>} /\ tds.hours = <<0, 1, 23>>
    /\ combined_ds[4 * 3 + 3] = [datetime |-> 17710608 + 4 * 24 + 23,
                                 value |-> <<2021, 6, "satdy", 23>>]
    /\ combined_ds[6 * 3 + 2] = [datetime |-> 17710608 + 6 * 24 + 1,
                                 value |-> <<2021, 6, "weekdy", 1>>]

\* C10: for a dataset of several months and/or years the datetime coordinate
\* rework_ds_dt returns is strictly increasing.
C10_StrictlyIncreasing ==
    (tpc = "done" /\ Cardinality(tds.pairs) >= 2) =>
        \A i \in 1..(Len(combined_ds) - 1) :
            combined_ds[i].datetime < combined_ds[i + 1].datetime

\* December 2020 and January 2021 were reworked into one series
C10_Witness ==
    /\ tpc = "done"
    /\ tds.pairs = {<<2020, 12>>, <<2021, 1>>}
    /\ Len(combined_ds) > 31 * Len(tds.hours)
    /\ Len(tds.hours) >= 2

\* the (calendar date, source hour) timestamps of the (year, month) pairs P
PairTimestamps(P, hours) ==
    UNION {MonthTimestamps(p[1], p[2], hours) : p \in P}

\* C11: the output of rework_ds_dt holds one entry per (calendar date, source
\* hour) of exactly the (year, month) pairs the source was assembled from: no
\* timestamp of a (year, month) pair the source does not contain is emitted,
\* also when the years and months of the source are not a full cross product.
C11_OnlySourcePairs ==
    tpc = "done" =>
        /\ {combined_ds[i].datetime : i \in DOMAIN combined_ds}
              = PairTimestamps(tds.pairs, tds.hours)
        /\ Len(combined_ds) = Cardinality(PairTimestamps(tds.pairs, tds.hours))

\* the classification places some weekday in two buckets
Overlapping(dtd) ==
    \E a, b \in DOMAIN dtd : a # b /\ dtd[a] \cap dtd[b] # {}

\* C12: when the day-type classification of the config places a calendar date
\* in two buckets, rework_ds_dt fails: it does not return, and no series it
\* returns holds a timestamp twice.
C12_DuplicatesFail ==
    /\ Overlapping(config_dtd) => tpc # "done"
    /\ tpc = "done" =>
          \A i, j \in DOMAIN combined_ds :
              i # j => combined_ds[i].datetime # combined_ds[j].datetime

----------------------------------------------------------------------------
(* Properties of concurrent regrid() calls *)

\* the units that start after the first call returned
LaterThreads == Threads \ {1}

\* C15: when the first regrid() call on the instance has returned before any
\* other unit starts, then in every interleaving of the later units no step
\* writes self.regridder or constructs a regridder, no later unit reaches the
\* creation or the assignment, and every unit that applies weights applies
\* the ones the first call built.
C15_ReadOnlyAfterBarrier ==
    /\ [][(\E u \in LaterThreads : thread_pc[u] # "waiting") =>
             (regridder' = regridder /\ nBuilt' = nBuilt)]_vars
    /\ [](\A u \in LaterThreads :
             /\ thread_pc[u] \notin {"create", "store"}
             /\ thread_pc[u] # "waiting" => (nBuilt = 1 /\ regridder.id = 1)
             /\ thread_applied[u] # 0 => thread_applied[u] = thread_applied[1])

\* two later units are inside regrid() at once: one has applied the weights of
\* the first call, the other has looked the regridder up and not yet applied it
C15_Witness ==
    /\ thread_pc[1] = "done" /\ thread_applied[1] = 1
    /\ thread_pc[2] = "apply"
    /\ thread_pc[3] = "done" /\ thread_applied[3] = 1
    /\ nBuilt = 1

----------------------------------------------------------------------------
(* Properties of the grids *)

\* the shape of a two-dimensional array whose rows all have the length of the
\* first, <<0, 0>> otherwise
Shape(A) ==
    IF Len(A) >= 1 /\ \A i \in DOMAIN A : Len(A[i]) = Len(A[1])
    THEN <<Len(A), Len(A[1])>>
    ELSE <<0, 0>>

\* C17: for a dataset with west_east = nx and south_north = ny, the boundary
\* arrays lat_b and lon_b create_ingrid returns both have the shape
\* (ny + 1, nx + 1).
C17_BoundaryShape ==
    grid_res.kind = "grid_in" =>
        /\ Shape(grid_res.lat_b) = <<grid_args.ny + 1, grid_args.nx + 1>>
        /\ Shape(grid_res.lon_b) = <<grid_args.ny + 1, grid_args.nx + 1>>

\* create_ingrid returned for a grid of 3 by 1 cells: 2 rows of 4 boundaries
C17_Witness ==
    /\ grid_res.kind = "grid_in"
    /\ grid_args.nx = 3 /\ grid_args.ny = 1
    /\ Len(grid_res.lat_b) = 2 /\ Len(grid_res.lat_b[1]) = 4
    /\ Len(grid_res.lon_b) = 2 /\ Len(grid_res.lon_b[2]) = 4

\* the boundaries b (in halves) of nn cells of spacing d about the centre c:
\* boundary k is x0 + k*d - d/2 with x0 = c - (nn-1)/2*d, adjacent boundaries
\* are one spacing apart, the cell centre x0 + k*d is the midpoint of the
\* boundaries k and k + 1, and the first and last boundary are c - nn*d/2 and
\* c + nn*d/2
SymmetricBoundaries(b, nn, d, c) ==
    /\ Len(b) = nn + 1
    /\ \A k \in 0..nn : b[k + 1] = (c - (nn - 1) * d) + 2 * k * d - d
    /\ \A k \in 0..(nn - 1) :
          /\ b[k + 2] - b[k + 1] = 2 * d
          /\ b[k + 1] + b[k + 2] = 2 * ((c - (nn - 1) * d) + 2 * k * d)
    /\ b[1] = c - nn * d
    /\ b[nn + 1] = c + nn * d

\* C19: the plane boundary mesh of create_ingrid: in every row the x
\* boundaries, and in every column the y boundaries, lie at
\* corner + k * spacing - spacing / 2, one spacing apart, with the cell centres
\* at the midpoints, symmetric about the domain centre (e, n).
C19_BoundaryMesh ==
    grid_res.kind = "grid_in" =>
        /\ \A i \in DOMAIN grid_res.x_b :
              SymmetricBoundaries(grid_res.x_b[i], grid_args.nx, grid_args.dx,
                                  grid_args.e)
        /\ \A j \in 1..(grid_args.nx + 1) :
              SymmetricBoundaries([i \in DOMAIN grid_res.y_b |-> grid_res.y_b[i][j]],
                                  grid_args.ny, grid_args.dy, grid_args.n)

\* three cells of spacing 2 about the centre -3/2: the x boundaries are
\* -9/2, -5/2, -1/2 and 3/2 (in halves -9, -5, -1, 3)
C19_Witness ==
    /\ grid_res.kind = "grid_in"
    /\ grid_args.nx = 3 /\ grid_args.dx = 2 /\ grid_args.e = -3
    /\ grid_args.ny = 2 /\ grid_args.dy = 1 /\ grid_args.n = 4
    /\ grid_res.x_b[1] = <<-9, -5, -1, 3>>
    /\ [i \in 1..3 |-> grid_res.y_b[i][1]] = <<2, 4, 6>>

\* one axis of get_grid_out (in halves): the centres are lo, lo + s, ...
\* strictly below hi, there is one boundary more than centres, every centre is
\* the midpoint of its two boundaries, the first boundary is lo - s/2 and the
\* last is the last centre + s/2
AxisBracketed(c, b, lo, hi, sp) ==
    /\ Len(c) >= 1
    /\ \A k \in DOMAIN c : c[k] = 2 * lo + 2 * (k - 1) * sp /\ c[k] < 2 * hi
    /\ c[Len(c)] + 2 * sp >= 2 * hi
    /\ Len(b) = Len(c) + 1
    /\ \A k \in DOMAIN c : 2 * c[k] = b[k] + b[k + 1]
    /\ b[1] = 2 * lo - sp
    /\ b[Len(b)] = c[Len(c)] + sp

\* C18: get_grid_out, in exact arithmetic: on the latitude and on the
\* longitude axis the centres are the stepped range over [lo, hi), the
\* boundary array has one element more, and every centre is the midpoint of
\* its adjacent boundaries, whether or not the spacing divides hi - lo.
C18_GridOutBracketed ==
    grid_res.kind = "grid_out" =>
        /\ AxisBracketed(grid_res.lat, grid_res.lat_b, grid_args.lat_center_range[1],
                         grid_args.lat_center_range[2], grid_args.lat_spacing)
        /\ AxisBracketed(grid_res.lon, grid_res.lon_b, grid_args.lon_center_range[1],
                         grid_args.lon_center_range[2], grid_args.lon_spacing)

\* the latitude range (0, 3) with spacing 2, which does not divide it: the
\* centres 0 and 2 between the boundaries -1, 1 and 3 (in halves -2, 2, 6)
C18_Witness ==
    /\ grid_res.kind = "grid_out"
    /\ grid_args.lat_center_range = <<0, 3>> /\ grid_args.lat_spacing = 2
    /\ grid_res.lat = <<0, 4>>
    /\ grid_res.lat_b = <<-2, 2, 6>>

----------------------------------------------------------------------------
(* Properties of DateTimeRange, get_inrange_list and get_daytype_from_int *)

\* the (year, month, day_type) combinations of a list of dates, read off the
\* calendar and the lists of dtd
CombinationsOf(dates, dtd) ==
    {c \in YearsOfDates \X (1..12) \X AllDayTypes :
        \E i \in DOMAIN dates, d \in 1..31 :
            /\ d <= monthrange(c[1], c[2])
            /\ toordinal(c[1], c[2], d) = dates[i]
            /\ weekday(dates[i]) \in dtd[c[3]]}

\* the alphabetical order of the day types
DayTypeRank(k) == CASE k = "satdy" -> 1 [] k = "sundy" -> 2 [] k = "weekdy" -> 3

\* a comes before b in the order by (year, month, day_type)
EntryBefore(a, b) ==
    \/ a.year < b.year
    \/ a.year = b.year /\ a.month < b.month
    \/ a.year = b.year /\ a.month = b.month
          /\ DayTypeRank(a.day_type) < DayTypeRank(b.day_type)

instant(dt) == dt.date * 24 + dt.hour - utcoffset(dt.tzinfo.name)

\* C24: new_tz(tz) with a timezone name or a pytz timezone returns a range
\* whose start and end are the same instants, expressed in tz; it raises
\* ValueError only for a tz that is neither a string nor a timezone object.
C24_NewTzConverts ==
    dop.op = "new_tz" =>
        /\ dop.args.tz.kind \in {"str", "pytz"} =>
              /\ dop.res.ok
              /\ instant(dop.res.obj.start_dt) = instant(dtr.start_dt)
              /\ instant(dop.res.obj.end_dt) = instant(dtr.end_dt)
              /\ dop.res.obj.start_dt.tzinfo = pytz_timezone(dop.args.tz.name)
              /\ dop.res.obj.end_dt.tzinfo = pytz_timezone(dop.args.tz.name)
        /\ ~dop.res.ok =>
              /\ dop.res.type = "ValueError"
              /\ dop.args.tz.kind \notin {"str", "pytz"}

\* what holds of new_tz: the conversion to UTC returns the same instants, and
\* an object that is no pytz timezone is refused
C24_NewTzToUTC ==
    dop.op = "new_tz" =>
        /\ (dop.args.tz.kind \in {"str", "pytz"} /\ dop.args.tz.name = "UTC") =>
              /\ dop.res.ok
              /\ instant(dop.res.obj.start_dt) = instant(dtr.start_dt)
              /\ instant(dop.res.obj.end_dt) = instant(dtr.end_dt)
        /\ dop.args.tz.kind \notin {"str", "pytz"} =>
              ~dop.res.ok /\ dop.res.type = "ValueError"

\* C25: a DateTimeRange built from two naive datetimes with the default tz has
\* the attributes tz, start_dt and end_dt and no other, tz is UTC, and start_dt
\* and end_dt equal the datetimes passed in.
C25_NaiveDefaultTz ==
    (/\ dop.op = "DateTimeRange"
     /\ dop.args.start_dt.tzinfo = NoTz
     /\ dop.args.end_dt.tzinfo = NoTz
     /\ dop.args.tz = "UTC") =>
        /\ dop.res.ok
        /\ DOMAIN dop.res.obj = {"tz", "start_dt", "end_dt"}
        /\ dop.res.obj.tz.name = "UTC"
        /\ dop.res.obj.start_dt = dop.args.start_dt
        /\ dop.res.obj.end_dt = dop.args.end_dt

\* the day types rework_ds_dt lists a date of weekday wd under
ReworkDayTypes(wd, dtd) ==
    {k \in Range(dates_by_day_type_keys) :
        dates_of_day_type(
            <<CHOOSE o \in FirstDay..(FirstDay + 6) : weekday(o) = wd>>, dtd, k) # <<>>}

\* C26: for every weekday 0..6 get_daytype_from_int returns the one day type
\* under which rework_ds_dt lists the dates of that weekday; the lists of the
\* config partition 0..6; an integer in no list makes get_daytype_from_int
\* raise ValueError.
C26_ClassificationAgrees ==
    /\ \A wd \in 0..6 : Cardinality({k \in AllDayTypes : wd \in config_dtd[k]}) = 1
    /\ dop.op = "get_daytype_from_int" =>
          /\ dop.args.day_int \in 0..6 =>
                /\ dop.res.ok
                /\ ReworkDayTypes(dop.args.day_int, config_dtd) = {dop.res.day_type}
          /\ (\A k \in AllDayTypes : dop.args.day_int \notin config_dtd[k]) =>
                ~dop.res.ok /\ dop.res.type = "ValueError"

\* Saturday is classified satdy by both sites
C26_Witness ==
    /\ dop.op = "get_daytype_from_int"
    /\ dop.args.day_int = 5
    /\ dop.res.ok /\ dop.res.day_type = "satdy"
    /\ ReworkDayTypes(5, config_dtd) = {"satdy"}

\* C27: a regrid() call on an instance without regridder whose weight creation
\* raises fails with the error of the creation and leaves the instance without
\* regridder; the regrid() call after it computes the weights again: when it
\* succeeds it has built the regridder the instance then holds.
C27_FailedCreationRetried ==
    (lastOp.op = "regrid" /\ lastOp.before = 0) =>
        /\ ~lastOp.ok =>
              /\ regridder = Unset
              /\ lastOp.built = 0
              /\ lastOp.res.type = "Exception"
        /\ (lastOp.retry /\ lastOp.ok) =>
              /\ lastOp.built # 0
              /\ regridder.id = lastOp.built
              /\ lastOp.res.weights = regridder

\* a regrid() call that built the weights right after a call that failed to
C27_Witness ==
    /\ lastOp.op = "regrid"
    /\ lastOp.retry
    /\ lastOp.ok
    /\ lastOp.built = 1
    /\ nBuilt = 1

\* C28: get_dates_in_range returns, for start_dt <= end_dt, the dates from the
\* date of start_dt to the date of end_dt, both included, ascending and each
\* once, whatever the times of day; for start_dt > end_dt it returns [].
C28_DatesInclusive ==
    dop.op = "get_dates_in_range" =>
        IF dt_le(dtr.start_dt, dtr.end_dt)
        THEN dop.res = [i \in 1..(dtr.end_dt.date - dtr.start_dt.date + 1) |->
                            dtr.start_dt.date + i - 1]
        ELSE dop.res = <<>>

\* what holds of get_dates_in_range: the dates are consecutive from the date
\* of start_dt, and the date of end_dt is the last of them exactly when the
\* time of day of start_dt is not later than that of end_dt
C28_EndDateByTimeOfDay ==
    dop.op = "get_dates_in_range" =>
        /\ \A i \in DOMAIN dop.res : dop.res[i] = dtr.start_dt.date + i - 1
        /\ Len(dop.res) =
              IF dtr.start_dt.date > dtr.end_dt.date THEN 0
              ELSE IF dtr.start_dt.hour <= dtr.end_dt.hour
              THEN dtr.end_dt.date - dtr.start_dt.date + 1
              ELSE dtr.end_dt.date - dtr.start_dt.date

----------------------------------------------------------------------------
(* Properties of the order of main and of the output paths *)

\* the place of v in the list sq
IndexOf(sq, v) == CHOOSE i \in DOMAIN sq : sq[i] = v

\* the places of the unit u in the four lists of the config, outermost first
LoopIndex(u) ==
    <<IndexOf(years, u.year), IndexOf(months, u.month),
      IndexOf(day_types, u.day_type), IndexOf(sectors, u.sector)>>

\* a comes before b in the nested loops
LoopBefore(a, b) ==
    \E i \in 1..4 : a[i] < b[i] /\ \A j \in 1..(i - 1) : a[j] = b[j]

\* the units whose output file the current run has written, in order
Written == SelectSeq(log, LAMBDA e : e.ev = "write")

\* C29: main goes through the units in the nested order year, month,
\* day_type, sector, every unit of the lists once; the output files are
\* written in that order, and the artifacts of the details folder are written
\* only when the file of every unit has been written.
C29_NestedOrderDetailsLast ==
    /\ {Unit(k) : k \in 1..NUnits}
         = [year : Range(years), month : Range(months),
            day_type : Range(day_types), sector : Range(sectors)]
    /\ \A j, k \in 1..NUnits :
           j < k => LoopBefore(LoopIndex(Unit(j)), LoopIndex(Unit(k)))
    /\ \A i \in DOMAIN Written : Written[i].unit = i
    /\ pc \in {"check_space", "load_regrid_save"} => Len(Written) = unit - 1
    /\ pc = "details" => Len(Written) = NUnits
    /\ \A i \in DOMAIN log :
           log[i].ev = "details" =>
               /\ i = Len(log)
               /\ Len(Written) = NUnits
               /\ \A a \in DetailFiles : details[a] = run
    /\ \A a \in DetailFiles :
           (details[a] = run /\ run > 0) => (pc = "done" /\ Len(Written) = NUnits)

\* a run that wrote the file of every unit and then the details
C29_Witness ==
    /\ pc = "done"
    /\ run = 1
    /\ Len(Written) = NUnits
    /\ Last(log).ev = "details"
    /\ \A k \in 1..NUnits : files[save_path(Unit(k))].run = 1
    /\ \A a \in DetailFiles : details[a] = 1

\* C30: two units never have the same output path; in the first run on an
\* empty output directory the target file of the unit main is at is absent
\* (the overwrite guard does not fire) and the files that exist are those of
\* the units that wrote, one file each.
C30_DistinctPaths ==
    /\ \A j, k \in 1..NUnits : j # k => save_path(Unit(j)) # save_path(Unit(k))
    /\ (run = 1 /\ pc \in {"check_space", "load_regrid_save"}) =>
          /\ files[save_path(Unit(unit))] = Absent
          /\ Cardinality({p \in OutPaths : files[p] # Absent}) = unit - 1
    /\ (run = 1 /\ removed = 0) =>
          /\ Cardinality({p \in OutPaths : files[p] # Absent}) = Len(Written)
          /\ \A i \in DOMAIN Written :
                 files[save_path(Unit(Written[i].unit))].run = 1

\* the first run at its last unit, the files of all other units written
C30_Witness ==
    /\ run = 1
    /\ pc = "load_regrid_save"
    /\ unit = NUnits
    /\ Cardinality({p \in OutPaths : files[p] # Absent}) = NUnits - 1
    /\ files[save_path(Unit(NUnits))] = Absent

====
